---- MODULE Spec2Model ----
(***************************************************************************)
(* Model of the SaaS ROI calculator (src/src/App.tsx): the App component's *)
(* seven input states, the errors state, the validateInputs callback, the  *)
(* memoized calculations record and React's render passes that keep them   *)
(* in step with the inputs.                                                *)
(*                                                                         *)
(* JavaScript numbers are modelled as exact rationals n/d (kind "fin")     *)
(* plus the special values NaN, Infinity and undefined.  Rounding of       *)
(* IEEE-754 doubles and overflow beyond Number.MAX_VALUE are not modelled. *)
(***************************************************************************)
EXTENDS Integers, Sequences, FiniteSets, TLC

VARIABLES
    licenseCost,          \* useState(50)
    numUsers,             \* useState(10)
    hoursSaved,           \* useState(5)
    hourlyRate,           \* useState(75)
    implementationCost,   \* useState(5000)
    timeToValue,          \* useState(3)
    pricingModel,         \* useState('monthly')
    errors,               \* useState<InputErrors>({})
    pendingErrors,        \* argument of a setErrors call queued during render
    validateInputsDeps,   \* dependency list held by useCallback
    calculations,         \* value held by useMemo
    calculationsDeps,     \* dependency list held by useMemo
    phase,                \* "render" | "rerender" | "idle"
    download              \* the file the last step handed to the browser, if any

vars == <<licenseCost, numUsers, hoursSaved, hourlyRate, implementationCost,
          timeToValue, pricingModel, errors, pendingErrors, validateInputsDeps,
          calculations, calculationsDeps, phase, download>>

----------------------------------------------------------------------------
(* Numbers *)

Abs(x) == IF x < 0 THEN -x ELSE x

RECURSIVE GCD(_, _)
GCD(a, b) == IF b = 0 THEN a ELSE GCD(b, a % b)

\* the rational n/d in lowest terms, d > 0
Rat(n, d) ==
    LET s == IF d < 0 THEN -1 ELSE 1
        g == GCD(Abs(n), Abs(d))
    IN  [k |-> "fin", n |-> (s * n) \div g, d |-> (s * d) \div g]

Num(i) == Rat(i, 1)

NaN         == [k |-> "nan",   n |-> 0,  d |-> 1]
Infinity    == [k |-> "inf",   n |-> 1,  d |-> 1]
NegInfinity == [k |-> "ninf",  n |-> -1, d |-> 1]
undefined   == [k |-> "undef", n |-> 0,  d |-> 1]

IsFinite(a) == a.k = "fin"

\* isNaN(x): Number(undefined) is NaN as well
isNaN(a) == a.k \in {"nan", "undef"}

\* -1, 0 or 1 for a number that is not NaN
Sgn(a) == IF a.n < 0 THEN -1 ELSE IF a.n > 0 THEN 1 ELSE 0

\* the infinity of sign sg; NaN for sign 0
Inf(sg) == IF sg > 0 THEN Infinity ELSE IF sg < 0 THEN NegInfinity ELSE NaN

\* the arithmetic operators, with the IEEE-754 rules for the special values
Add(a, b) == IF isNaN(a) \/ isNaN(b) THEN NaN
             ELSE IF IsFinite(a) /\ IsFinite(b)
             THEN Rat(a.n * b.d + b.n * a.d, a.d * b.d)
             ELSE IF IsFinite(a) THEN b
             ELSE IF IsFinite(b) \/ a = b THEN a
             ELSE NaN
Neg(a) == IF isNaN(a) THEN NaN
          ELSE IF IsFinite(a) THEN Rat(-a.n, a.d)
          ELSE Inf(-Sgn(a))
Sub(a, b) == Add(a, Neg(b))
Mul(a, b) == IF isNaN(a) \/ isNaN(b) THEN NaN
             ELSE IF IsFinite(a) /\ IsFinite(b) THEN Rat(a.n * b.n, a.d * b.d)
             ELSE Inf(Sgn(a) * Sgn(b))
Div(a, b) == IF isNaN(a) \/ isNaN(b) THEN NaN
             ELSE IF IsFinite(a) /\ IsFinite(b) /\ b.n # 0
             THEN Rat(a.n * b.d, a.d * b.n)
             ELSE IF IsFinite(b) /\ b.n = 0 THEN Inf(Sgn(a))
             ELSE IF IsFinite(b) THEN Inf(Sgn(a) * Sgn(b))
             ELSE IF IsFinite(a) THEN Rat(0, 1)
             ELSE NaN

\* a < b and a > b; false when an operand is NaN or undefined
Lt(a, b) == CASE IsFinite(a) /\ IsFinite(b) -> a.n * b.d < b.n * a.d
              [] IsFinite(a) /\ b.k = "inf" -> TRUE
              [] a.k = "ninf" /\ (IsFinite(b) \/ b.k = "inf") -> TRUE
              [] OTHER -> FALSE
Gt(a, b) == Lt(b, a)

\* a ?? b
Coalesce(a, b) == IF a.k = "undef" THEN b ELSE a

\* Math.max(a, b)
MathMax(a, b) == IF isNaN(a) \/ isNaN(b) THEN NaN
                 ELSE IF Lt(a, b) THEN b ELSE a

----------------------------------------------------------------------------
(* Input *)

Fields == {"licenseCost", "numUsers", "hoursSaved", "hourlyRate",
           "implementationCost", "timeToValue"}

input == [licenseCost |-> licenseCost, numUsers |-> numUsers,
          hoursSaved |-> hoursSaved, hourlyRate |-> hourlyRate,
          implementationCost |-> implementationCost,
          timeToValue |-> timeToValue, pricingModel |-> pricingModel]

\* InputField.handleChange: the value handed to setValue for a parsed text
handleChange(val) == IF isNaN(val) THEN Num(0) ELSE val

----------------------------------------------------------------------------
(* validateInputs *)

\* validateInputs stopping at the first violated constraint
ViolationsFirstOnly(inp) ==
    IF Lt(inp.licenseCost, Num(0)) THEN {"licenseCost"}
    ELSE IF Lt(inp.numUsers, Num(1)) THEN {"numUsers"}
    ELSE IF Lt(inp.hoursSaved, Num(0)) THEN {"hoursSaved"}
    ELSE IF Lt(inp.hourlyRate, Num(0)) THEN {"hourlyRate"}
    ELSE IF Lt(inp.implementationCost, Num(0)) THEN {"implementationCost"}
    ELSE IF Lt(inp.timeToValue, Num(0)) THEN {"timeToValue"}
    ELSE {}

\* the fields that get an entry in newErrors
Violations(inp) ==
    {f \in Fields :
        \/ f = "licenseCost" /\ Lt(inp.licenseCost, Num(0))
        \/ f = "numUsers" /\ Lt(inp.numUsers, Num(1))
        \/ f = "hoursSaved" /\ Lt(inp.hoursSaved, Num(0))
        \/ f = "hourlyRate" /\ Lt(inp.hourlyRate, Num(0))
        \/ f = "implementationCost" /\ Lt(inp.implementationCost, Num(0))
        \/ f = "timeToValue" /\ Lt(inp.timeToValue, Num(0))}

\* the newErrors object: field -> message
newErrors(inp) ==
    [f \in Violations(inp) |->
        IF f = "numUsers" THEN "Must be at least 1." ELSE "Cannot be negative."]

\* the return value: Object.keys(newErrors).length === 0
validateInputs(inp) == DOMAIN newErrors(inp) = {}

----------------------------------------------------------------------------
(* calculations: the body of the useMemo callback *)

\* the object returned when validateInputs() is false
InvalidCalculations ==
    [annualSavings            |-> NaN,
     firstYearAdjustedSavings |-> undefined,   \* no such key in the object
     firstYearTotalCost       |-> NaN,
     annualROI                |-> NaN,
     paybackPeriodMonths      |-> NaN,
     annualNetValue           |-> NaN,
     annualLicenseCost        |-> NaN,
     totalSavingsOver3Years   |-> NaN,
     monthlyNetSavings        |-> NaN]

\* the license cost taken as monthly whatever the pricing model
actualLicenseCostAlwaysMonthly(inp) == Mul(inp.licenseCost, Num(12))

actualLicenseCost(inp) ==
    IF inp.pricingModel = "annual" THEN inp.licenseCost
    ELSE Mul(inp.licenseCost, Num(12))

annualLicenseCost(inp) == Mul(actualLicenseCost(inp), inp.numUsers)

\* the rate divided by the hours instead of multiplied
weeklySavingsPerUserRatio(inp) == Div(inp.hourlyRate, inp.hoursSaved)

weeklySavingsPerUser(inp) == Mul(inp.hoursSaved, inp.hourlyRate)

totalWeeklySavings(inp) == Mul(weeklySavingsPerUser(inp), inp.numUsers)

\* a year of 12 weeks instead of 52
annualSavingsTwelve(inp) == Mul(Mul(Mul(inp.hoursSaved, inp.hourlyRate), inp.numUsers), Num(12))

annualSavings(inp) == Mul(totalWeeklySavings(inp), Num(52))

firstYearTotalCost(inp) == Add(annualLicenseCost(inp), inp.implementationCost)

annualNetValue(inp) == Sub(annualSavings(inp), annualLicenseCost(inp))

\* ROI computed by the division whatever the first-year cost
annualROIUnguarded(inp) ==
    Mul(Div(annualNetValue(inp), firstYearTotalCost(inp)), Num(100))

\* ROI without the infinite case: 0 whenever the first-year cost is 0
annualROINoInfinity(inp) ==
    IF Gt(firstYearTotalCost(inp), Num(0))
    THEN Mul(Div(annualNetValue(inp), firstYearTotalCost(inp)), Num(100))
    ELSE Num(0)

annualROI(inp) ==
    IF Gt(firstYearTotalCost(inp), Num(0))
    THEN Mul(Div(annualNetValue(inp), firstYearTotalCost(inp)), Num(100))
    ELSE IF Gt(annualNetValue(inp), Num(0)) THEN Infinity
    ELSE Num(0)

\* the monthly figure derived from the weekly one: a division by 52
monthlyNetSavingsByWeeks(inp) ==
    Div(Sub(annualSavings(inp), annualLicenseCost(inp)), Num(52))

monthlyNetSavings(inp) ==
    Div(Sub(annualSavings(inp), annualLicenseCost(inp)), Num(12))

\* payback that reports 0 instead of never when nothing has to be recovered
paybackPeriodMonthsZeroCost(inp) ==
    IF Gt(inp.implementationCost, Num(0)) /\ Gt(monthlyNetSavings(inp), Num(0))
    THEN Add(inp.timeToValue, Div(inp.implementationCost, monthlyNetSavings(inp)))
    ELSE IF Gt(monthlyNetSavings(inp), Num(0)) THEN inp.timeToValue
    ELSE IF Gt(inp.implementationCost, Num(0)) THEN Infinity
    ELSE Num(0)

\* payback counted from the end of the ramp-up, leaving the ramp-up out
paybackPeriodMonthsNoRampUp(inp) ==
    IF Gt(monthlyNetSavings(inp), Num(0))
    THEN Div(inp.implementationCost, monthlyNetSavings(inp))
    ELSE Infinity

paybackPeriodMonths(inp) ==
    IF Gt(monthlyNetSavings(inp), Num(0))
    THEN Add(inp.timeToValue, Div(inp.implementationCost, monthlyNetSavings(inp)))
    ELSE Infinity

\* the effective months without the clamp at 0
firstYearEffectiveMonthsUnclamped(inp) == Sub(Num(12), inp.timeToValue)

firstYearEffectiveMonthsOfSavings(inp) ==
    MathMax(Num(0), Sub(Num(12), inp.timeToValue))

firstYearAdjustedSavings(inp) ==
    Mul(annualSavings(inp), Div(firstYearEffectiveMonthsOfSavings(inp), Num(12)))

\* three years all reduced like the first one
totalSavingsOver3YearsAllReduced(inp) == Mul(firstYearAdjustedSavings(inp), Num(3))

totalSavingsOver3Years(inp) ==
    Add(firstYearAdjustedSavings(inp), Mul(annualSavings(inp), Num(2)))

\* the value of the useMemo callback for the input inp
Calculate(inp) ==
    IF ~validateInputs(inp) THEN InvalidCalculations
    ELSE [annualSavings            |-> annualSavings(inp),
          firstYearAdjustedSavings |-> firstYearAdjustedSavings(inp),
          firstYearTotalCost       |-> firstYearTotalCost(inp),
          annualROI                |-> annualROI(inp),
          paybackPeriodMonths      |-> paybackPeriodMonths(inp),
          annualNetValue           |-> annualNetValue(inp),
          annualLicenseCost        |-> annualLicenseCost(inp),
          totalSavingsOver3Years   |-> totalSavingsOver3Years(inp),
          monthlyNetSavings        |-> monthlyNetSavings(inp)]

----------------------------------------------------------------------------
(* chartData: the useMemo over [calculations] *)

Point(name, cost, savings, net) ==
    [name |-> name, Cost |-> cost, Savings |-> savings, NetValue |-> net]

\* the three points returned when calculations is not valid
ZeroChart ==
    <<Point("Year 1", Num(0), Num(0), Num(0)),
      Point("Year 2", Num(0), Num(0), Num(0)),
      Point("Year 3", Num(0), Num(0), Num(0))>>

\* the chart with the first-year cost charged every year
ChartDataCostEveryYear(calc) ==
    IF isNaN(calc.firstYearTotalCost) THEN ZeroChart
    ELSE <<Point("Year 1", calc.firstYearTotalCost, calc.firstYearAdjustedSavings,
                 Sub(calc.firstYearAdjustedSavings, calc.firstYearTotalCost)),
           Point("Year 2", calc.firstYearTotalCost, calc.annualSavings,
                 calc.annualNetValue),
           Point("Year 3", calc.firstYearTotalCost, calc.annualSavings,
                 calc.annualNetValue)>>

\* the chart without the isNaN check
ChartDataUnguarded(calc) ==
    <<Point("Year 1", calc.firstYearTotalCost, calc.firstYearAdjustedSavings,
            Sub(Coalesce(calc.firstYearAdjustedSavings, Num(0)),
                Coalesce(calc.firstYearTotalCost, Num(0)))),
      Point("Year 2", calc.annualLicenseCost, calc.annualSavings, calc.annualNetValue),
      Point("Year 3", calc.annualLicenseCost, calc.annualSavings, calc.annualNetValue)>>

\* the value of the chartData callback for the calculations record calc
\* the chart with the full annual savings already in the first year
ChartDataFullFirstYear(calc) ==
    IF isNaN(calc.firstYearTotalCost) THEN ZeroChart
    ELSE <<Point("Year 1", calc.firstYearTotalCost, calc.annualSavings,
                 Sub(calc.annualSavings, calc.firstYearTotalCost)),
           Point("Year 2", calc.annualLicenseCost, calc.annualSavings,
                 calc.annualNetValue),
           Point("Year 3", calc.annualLicenseCost, calc.annualSavings,
                 calc.annualNetValue)>>

ChartDataOf(calc) ==
    IF isNaN(calc.firstYearTotalCost) THEN ZeroChart
    ELSE LET year1NetValue ==
                 Sub(Coalesce(calc.firstYearAdjustedSavings, Num(0)),
                     Coalesce(calc.firstYearTotalCost, Num(0)))
         IN  <<Point("Year 1", calc.firstYearTotalCost,
                     calc.firstYearAdjustedSavings, year1NetValue),
               Point("Year 2", calc.annualLicenseCost, calc.annualSavings,
                     calc.annualNetValue),
               Point("Year 3", calc.annualLicenseCost, calc.annualSavings,
                     calc.annualNetValue)>>

\* chartData is recomputed in the pass in which calculations changes, so it
\* is always the chart of the current calculations record
chartData == ChartDataOf(calculations)

----------------------------------------------------------------------------
(* The three output cards *)

\* x rounded to a multiple of 1/scale, halves away from zero
RoundTo(x, scale) ==
    Rat(Sgn(x) * ((2 * Abs(x.n) * scale + x.d) \div (2 * x.d)), scale)

\* a string: a fixed label, or the text of a formatted number
Text(label) == [text |-> label, num |-> NaN]

\* formatCurrency(value): US dollars with no fraction digits
formatCurrency(value) ==
    [text |-> "$", num |-> IF IsFinite(value) THEN RoundTo(value, 1) ELSE value]

\* value.toFixed(1)
toFixed1(value) ==
    [text |-> "fixed", num |-> IF IsFinite(value) THEN RoundTo(value, 10) ELSE value]

\* `${value.toFixed(1)}%`
toFixed1Percent(value) == [toFixed1(value) EXCEPT !.text = "fixed%"]

CardAnnualSavings(calc) ==
    IF isNaN(calc.annualSavings) THEN Text("N/A")
    ELSE formatCurrency(calc.annualSavings)

\* the payback card without the Infinity case
CardPaybackNoNever(calc) ==
    IF isNaN(calc.paybackPeriodMonths) THEN Text("N/A")
    ELSE toFixed1(calc.paybackPeriodMonths)

CardPayback(calc) ==
    IF isNaN(calc.paybackPeriodMonths) THEN Text("N/A")
    ELSE IF calc.paybackPeriodMonths = Infinity THEN Text("Never")
    ELSE toFixed1(calc.paybackPeriodMonths)

CardROI(calc) ==
    IF isNaN(calc.annualROI) THEN Text("N/A")
    ELSE IF calc.annualROI = Infinity THEN Text("Infinite %")
    ELSE toFixed1Percent(calc.annualROI)

\* the value props of the three OutputCard elements, as rendered from the
\* current calculations record
cards ==
    [annualSavings       |-> CardAnnualSavings(calculations),
     paybackPeriodMonths |-> CardPayback(calculations),
     annualROI           |-> CardROI(calculations)]

----------------------------------------------------------------------------
(* The JSON and CSV exports *)

Row(label, value) == [label |-> label, value |-> value]

\* null, and the empty text that Array.prototype.join writes for undefined
null        == [k |-> "null",  n |-> 0, d |-> 1]
EmptyString == [k |-> "empty", n |-> 0, d |-> 1]

\* no file: the last step was not an export
NoDownload == [file |-> "", header |-> <<>>, rows |-> <<>>]

\* the six input rows, in the order of both exports
InputMetricsRows(inp) ==
    <<Row("License Cost per User/Month", inp.licenseCost),
      Row("Number of Users", inp.numUsers),
      Row("Avg. Hours Saved per User/Week", inp.hoursSaved),
      Row("Avg. Employee Hourly Rate", inp.hourlyRate),
      Row("One-Time Implementation Cost", inp.implementationCost),
      Row("Time-to-Value (Months)", inp.timeToValue)>>

\* the output rows with the license cost written in two places
CalculatedMetricsRowsCostTwice(calc, roiLabel) ==
    <<Row("Annual Recurring Savings", calc.annualSavings),
      Row("Annual License Cost", calc.annualLicenseCost),
      Row("First Year Total Cost", calc.annualLicenseCost),
      Row("Net Value (Annual)", calc.annualNetValue),
      Row(roiLabel, calc.annualROI),
      Row("Payback Period (Months)", calc.paybackPeriodMonths),
      Row("Total Savings Over 3 Years", calc.totalSavingsOver3Years)>>

\* the seven output rows, in the order of both exports
CalculatedMetricsRows(calc, roiLabel) ==
    <<Row("Annual Recurring Savings", calc.annualSavings),
      Row("Annual License Cost", calc.annualLicenseCost),
      Row("First Year Total Cost", calc.firstYearTotalCost),
      Row("Net Value (Annual)", calc.annualNetValue),
      Row(roiLabel, calc.annualROI),
      Row("Payback Period (Months)", calc.paybackPeriodMonths),
      Row("Total Savings Over 3 Years", calc.totalSavingsOver3Years)>>

\* JSON.stringify of an object's properties: a finite number is written as
\* it is, NaN and the infinities as null, an undefined property is left out
JsonProperties(rows) ==
    LET kept == SelectSeq(rows, LAMBDA r : r.value.k # "undef")
    IN  [i \in 1..Len(kept) |->
            Row(kept[i].label,
                IF IsFinite(kept[i].value) THEN kept[i].value ELSE null)]

\* e.join(',') of a [label, value] pair: the text of the number ("NaN" and
\* "Infinity" included), the empty text for undefined or null
CsvCells(rows) ==
    [i \in 1..Len(rows) |->
        Row(rows[i].label,
            IF rows[i].value.k \in {"undef", "null"} THEN EmptyString
            ELSE rows[i].value)]

----------------------------------------------------------------------------
(* React hooks of App *)

\* no dependency list yet: the hook has not run (first render)
NoDeps == <<>>

\* dependency list of useCallback(validateInputs)
ValidateInputsDepsOf(inp) ==
    <<inp.licenseCost, inp.numUsers, inp.hoursSaved, inp.hourlyRate,
      inp.implementationCost, inp.timeToValue>>

\* a dependency list that omits pricingModel and the callback
CalculationsDepsWithoutPricingModel(inp, cb) ==
    <<inp.licenseCost, inp.numUsers, inp.hoursSaved, inp.hourlyRate,
      inp.implementationCost, inp.timeToValue>>

\* useMemo without a dependency list: never equal to the list it holds
CalculationsDepsNone(inp, cb) ==
    IF calculationsDeps = NoDeps
    THEN <<inp.licenseCost, inp.numUsers, inp.hoursSaved, inp.hourlyRate,
           inp.implementationCost, inp.timeToValue, inp.pricingModel, cb>>
    ELSE NoDeps

\* dependency list of useMemo(calculations); cb is the identity of the
\* validateInputs callback, which changes exactly when its own list changes
CalculationsDepsOf(inp, cb) ==
    <<inp.licenseCost, inp.numUsers, inp.hoursSaved, inp.hourlyRate,
      inp.implementationCost, inp.timeToValue, inp.pricingModel, cb>>

\* the calculations value before the first render
NotComputed == [f \in DOMAIN InvalidCalculations |-> undefined]

NoErrors == [f \in {} |-> ""]

DefaultLicenseCost == 50
DefaultNumUsers == 10
DefaultHoursSaved == 5
DefaultHourlyRate == 75
DefaultImplementationCost == 5000
DefaultTimeToValue == 3

\* the state built by the useState initialisers, before the first render
Init ==
    /\ licenseCost = Num(DefaultLicenseCost)
    /\ numUsers = Num(DefaultNumUsers)
    /\ hoursSaved = Num(DefaultHoursSaved)
    /\ hourlyRate = Num(DefaultHourlyRate)
    /\ implementationCost = Num(DefaultImplementationCost)
    /\ timeToValue = Num(DefaultTimeToValue)
    /\ pricingModel = "monthly"
    /\ errors = NoErrors
    /\ pendingErrors = NoErrors
    /\ validateInputsDeps = NoDeps
    /\ calculations = NotComputed
    /\ calculationsDeps = NoDeps
    /\ phase = "render"
    /\ download = NoDownload

\* The hooks of one pass over the body of App.  useCallback keeps the callback
\* unless its list changed; useMemo re-runs its callback when its list
\* changed, and that callback calls validateInputs, whose setErrors(newErrors)
\* during render makes React run the body once more before committing.
HooksPass ==
    LET cb == ValidateInputsDepsOf(input)
        deps == CalculationsDepsOf(input, cb)
    IN  /\ validateInputsDeps' = cb
        /\ IF deps # calculationsDeps
           THEN /\ calculations' = Calculate(input)
                /\ calculationsDeps' = deps
                /\ pendingErrors' = newErrors(input)
                /\ phase' = "rerender"
           ELSE /\ phase' = "idle"
                /\ UNCHANGED <<calculations, calculationsDeps, pendingErrors>>

\* The pass that follows a user event (or the first one after construction)
RenderApp ==
    /\ phase = "render"
    /\ HooksPass
    /\ download' = NoDownload
    /\ UNCHANGED <<licenseCost, numUsers, hoursSaved, hourlyRate,
                   implementationCost, timeToValue, pricingModel, errors>>

\* The pass caused by a setErrors during render: errors takes the queued
\* value and the hooks run again over the same input
RerenderApp ==
    /\ phase = "rerender"
    /\ errors' = pendingErrors
    /\ HooksPass
    /\ download' = NoDownload
    /\ UNCHANGED <<licenseCost, numUsers, hoursSaved, hourlyRate,
                   implementationCost, timeToValue, pricingModel>>

----------------------------------------------------------------------------
(* User events; React runs them only between renders and renders after each *)

\* largest number typed into a field
MaxTyped == 1

\* parseFloat(e.target.value) for the texts a user types: NaN for an empty
\* or unparsable text
Typed == {NaN} \cup {Num(k) : k \in -1..MaxTyped}

\* the Number of Users field has step="any": a fraction can be typed as well
TypedUsers == Typed \cup {Rat(3, 2)}

ChangeLicenseCost ==
    /\ phase = "idle"
    /\ \E val \in Typed : licenseCost' = handleChange(val)
    /\ phase' = "render"
    /\ download' = NoDownload
    /\ UNCHANGED <<numUsers, hoursSaved, hourlyRate, implementationCost,
                   timeToValue, pricingModel, errors, pendingErrors,
                   validateInputsDeps, calculations, calculationsDeps>>

ChangeNumUsers ==
    /\ phase = "idle"
    /\ \E val \in TypedUsers : numUsers' = handleChange(val)
    /\ phase' = "render"
    /\ download' = NoDownload
    /\ UNCHANGED <<licenseCost, hoursSaved, hourlyRate, implementationCost,
                   timeToValue, pricingModel, errors, pendingErrors,
                   validateInputsDeps, calculations, calculationsDeps>>

ChangeHoursSaved ==
    /\ phase = "idle"
    /\ \E val \in Typed : hoursSaved' = handleChange(val)
    /\ phase' = "render"
    /\ download' = NoDownload
    /\ UNCHANGED <<licenseCost, numUsers, hourlyRate, implementationCost,
                   timeToValue, pricingModel, errors, pendingErrors,
                   validateInputsDeps, calculations, calculationsDeps>>

ChangeHourlyRate ==
    /\ phase = "idle"
    /\ \E val \in Typed : hourlyRate' = handleChange(val)
    /\ phase' = "render"
    /\ download' = NoDownload
    /\ UNCHANGED <<licenseCost, numUsers, hoursSaved, implementationCost,
                   timeToValue, pricingModel, errors, pendingErrors,
                   validateInputsDeps, calculations, calculationsDeps>>

ChangeImplementationCost ==
    /\ phase = "idle"
    /\ \E val \in Typed : implementationCost' = handleChange(val)
    /\ phase' = "render"
    /\ download' = NoDownload
    /\ UNCHANGED <<licenseCost, numUsers, hoursSaved, hourlyRate,
                   timeToValue, pricingModel, errors, pendingErrors,
                   validateInputsDeps, calculations, calculationsDeps>>

ChangeTimeToValue ==
    /\ phase = "idle"
    /\ \E val \in Typed : timeToValue' = handleChange(val)
    /\ phase' = "render"
    /\ download' = NoDownload
    /\ UNCHANGED <<licenseCost, numUsers, hoursSaved, hourlyRate,
                   implementationCost, pricingModel, errors, pendingErrors,
                   validateInputsDeps, calculations, calculationsDeps>>

\* the Monthly / Annual buttons
SetPricingModel ==
    /\ phase = "idle"
    /\ \E m \in {"monthly", "annual"} : pricingModel' = m
    /\ phase' = "render"
    /\ download' = NoDownload
    /\ UNCHANGED <<licenseCost, numUsers, hoursSaved, hourlyRate,
                   implementationCost, timeToValue, errors, pendingErrors,
                   validateInputsDeps, calculations, calculationsDeps>>

\* a Load Example Data that also restores the initial pricing model
LoadExampleDataResetsPricing ==
    /\ phase = "idle"
    /\ licenseCost' = Num(DefaultLicenseCost)
    /\ numUsers' = Num(DefaultNumUsers)
    /\ hoursSaved' = Num(DefaultHoursSaved)
    /\ hourlyRate' = Num(DefaultHourlyRate)
    /\ implementationCost' = Num(DefaultImplementationCost)
    /\ timeToValue' = Num(DefaultTimeToValue)
    /\ pricingModel' = "monthly"
    /\ phase' = "render"
    /\ download' = NoDownload
    /\ UNCHANGED <<errors, pendingErrors, validateInputsDeps,
                   calculations, calculationsDeps>>

LoadExampleData ==
    /\ phase = "idle"
    /\ licenseCost' = Num(DefaultLicenseCost)
    /\ numUsers' = Num(DefaultNumUsers)
    /\ hoursSaved' = Num(DefaultHoursSaved)
    /\ hourlyRate' = Num(DefaultHourlyRate)
    /\ implementationCost' = Num(DefaultImplementationCost)
    /\ timeToValue' = Num(DefaultTimeToValue)
    /\ phase' = "render"
    /\ download' = NoDownload
    /\ UNCHANGED <<pricingModel, errors, pendingErrors, validateInputsDeps,
                   calculations, calculationsDeps>>

ClearInputs ==
    /\ phase = "idle"
    /\ licenseCost' = Num(0)
    /\ numUsers' = Num(0)
    /\ hoursSaved' = Num(0)
    /\ hourlyRate' = Num(0)
    /\ implementationCost' = Num(0)
    /\ timeToValue' = Num(0)
    /\ phase' = "render"
    /\ download' = NoDownload
    /\ UNCHANGED <<pricingModel, errors, pendingErrors, validateInputsDeps,
                   calculations, calculationsDeps>>

\* the Download Results button
DownloadResults ==
    /\ phase = "idle"
    /\ download' =
          [file   |-> "saas-roi-calculation.json",
           header |-> <<"Input Metrics", "Calculated Metrics">>,
           rows   |-> JsonProperties(InputMetricsRows(input))
                      \o JsonProperties(
                             CalculatedMetricsRows(calculations, "First Year ROI (%)"))]
    /\ UNCHANGED <<licenseCost, numUsers, hoursSaved, hourlyRate,
                   implementationCost, timeToValue, pricingModel, errors,
                   pendingErrors, validateInputsDeps, calculations,
                   calculationsDeps, phase>>

\* the Export as CSV button
ExportCSV ==
    /\ phase = "idle"
    /\ download' =
          [file   |-> "saas-roi-results.csv",
           header |-> <<"Metric", "Value">>,
           rows   |-> CsvCells(InputMetricsRows(input)
                               \o CalculatedMetricsRows(calculations,
                                                        "First Year ROI (%)"))]
    /\ UNCHANGED <<licenseCost, numUsers, hoursSaved, hourlyRate,
                   implementationCost, timeToValue, pricingModel, errors,
                   pendingErrors, validateInputsDeps, calculations,
                   calculationsDeps, phase>>

Next ==
    \/ RenderApp
    \/ RerenderApp
    \/ ChangeLicenseCost
    \/ ChangeNumUsers
    \/ ChangeHoursSaved
    \/ ChangeHourlyRate
    \/ ChangeImplementationCost
    \/ ChangeTimeToValue
    \/ SetPricingModel
    \/ LoadExampleData
    \/ ClearInputs
    \/ DownloadResults
    \/ ExportCSV

Spec == Init /\ [][Next]_vars

----------------------------------------------------------------------------
(* The derivation over a range of inputs: App rendered for the first time  *)
(* with the seven states holding any values of the ranges below            *)

MaxLicenseCost == 2
MaxUsersHalves == 4
MaxHoursSaved == 2
MaxHourlyRate == 2
MaxImplementationCost == 2
MaxTimeToValueSteps == 4

LicenseCostRange == {Num(k) : k \in -1..MaxLicenseCost}
NumUsersRange == {Rat(k, 2) : k \in 0..MaxUsersHalves}
HoursSavedRange == {Num(k) : k \in -1..MaxHoursSaved}
HourlyRateRange == {Num(k) : k \in -1..MaxHourlyRate}
ImplementationCostRange == {Num(k) : k \in -1..MaxImplementationCost}
TimeToValueRange == {Num(4 * k) : k \in -1..MaxTimeToValueSteps}

InitCalc ==
    /\ licenseCost \in LicenseCostRange
    /\ numUsers \in NumUsersRange
    /\ hoursSaved \in HoursSavedRange
    /\ hourlyRate \in HourlyRateRange
    /\ implementationCost \in ImplementationCostRange
    /\ timeToValue \in TimeToValueRange
    /\ pricingModel \in {"monthly", "annual"}
    /\ errors = NoErrors
    /\ pendingErrors = NoErrors
    /\ validateInputsDeps = NoDeps
    /\ calculations = NotComputed
    /\ calculationsDeps = NoDeps
    /\ phase = "render"
    /\ download = NoDownload

NextCalc ==
    \/ RenderApp
    \/ RerenderApp

SpecCalc == InitCalc /\ [][NextCalc]_vars

----------------------------------------------------------------------------
(* Properties *)

\* rendering has settled: no render pass is pending
Settled == phase = "idle"

\* the constraints of the input fields, stated on the current input
ViolatingFields ==
    (IF licenseCost.n < 0 THEN {"licenseCost"} ELSE {})
    \cup (IF numUsers.n < numUsers.d THEN {"numUsers"} ELSE {})
    \cup (IF hoursSaved.n < 0 THEN {"hoursSaved"} ELSE {})
    \cup (IF hourlyRate.n < 0 THEN {"hourlyRate"} ELSE {})
    \cup (IF implementationCost.n < 0 THEN {"implementationCost"} ELSE {})
    \cup (IF timeToValue.n < 0 THEN {"timeToValue"} ELSE {})

InputValid == ViolatingFields = {}

OutputFields == {"annualLicenseCost", "annualSavings", "firstYearAdjustedSavings",
                 "firstYearTotalCost", "annualNetValue", "annualROI",
                 "monthlyNetSavings", "paybackPeriodMonths",
                 "totalSavingsOver3Years"}

Zero == Num(0)

\* a <= b on finite numbers
Le(a, b) == IsFinite(a) /\ IsFinite(b) /\ a.n * b.d <= b.n * a.d

\* C1: whenever the input violates a constraint, every one of the nine
\* output fields is NaN (none computed, none absent).
C1_InvalidInputAllNaN ==
    (Settled /\ ~InputValid) =>
        \A f \in OutputFields : calculations[f] = NaN

\* C2: after validateInputs the fields carrying an error message are exactly
\* the fields violating their constraint, and the derivation ran if and only
\* if there is none.
C2_ErrorsAreExactlyViolations ==
    Settled =>
        /\ DOMAIN errors = ViolatingFields
        /\ isNaN(calculations.annualSavings) <=> (ViolatingFields # {})

C2_Witness ==
    /\ Settled
    /\ DOMAIN errors = {"numUsers", "hourlyRate"}
    /\ Lt(hourlyRate, Zero) /\ Lt(numUsers, Num(1))

\* C3: for valid input annualROI is net value / first-year cost x 100 when
\* that cost is positive, +Infinity when the cost is 0 and the net value
\* positive, and 0 when the cost is 0 and the net value is not positive.
C3_AnnualROI ==
    (Settled /\ InputValid) =>
        LET net  == Sub(calculations.annualSavings, calculations.annualLicenseCost)
            cost == Add(calculations.annualLicenseCost, implementationCost)
            roi  == calculations.annualROI
        IN  /\ calculations.annualNetValue = net
            /\ calculations.firstYearTotalCost = cost
            /\ Gt(cost, Zero) =>
                  IsFinite(roi) /\ Mul(roi, cost) = Mul(net, Num(100))
            /\ (cost = Zero /\ Gt(net, Zero)) => roi = Infinity
            /\ (cost = Zero /\ Le(net, Zero)) => roi = Zero
            /\ (numUsers = Num(1) /\ licenseCost = Zero /\ implementationCost = Zero
                    /\ hoursSaved = Zero) => roi = Zero

C3_Witness ==
    /\ Settled /\ InputValid
    /\ calculations.firstYearTotalCost = Zero
    /\ Gt(calculations.annualNetValue, Zero)
    /\ calculations.annualROI = Infinity

\* C4: for valid input paybackPeriodMonths is timeToValue +
\* implementationCost / monthlyNetSavings when monthlyNetSavings =
\* (annualSavings - annualLicenseCost) / 12 is positive, and +Infinity
\* otherwise, also when implementationCost is 0.
C4_PaybackPeriod ==
    (Settled /\ InputValid) =>
        LET m == Div(Sub(calculations.annualSavings, calculations.annualLicenseCost),
                     Num(12))
            p == calculations.paybackPeriodMonths
        IN  /\ calculations.monthlyNetSavings = m
            /\ Gt(m, Zero) =>
                  IsFinite(p) /\ Mul(Sub(p, timeToValue), m) = implementationCost
            /\ Le(m, Zero) => p = Infinity

C4_Witness ==
    /\ Settled /\ InputValid
    /\ implementationCost = Zero
    /\ Le(calculations.monthlyNetSavings, Zero)
    /\ calculations.paybackPeriodMonths = Infinity

\* C5: for valid input annualLicenseCost is numUsers x licenseCost under
\* annual pricing and numUsers x licenseCost x 12 under monthly pricing.
C5_AnnualLicenseCost ==
    (Settled /\ InputValid) =>
        calculations.annualLicenseCost =
            IF pricingModel = "annual" THEN Mul(numUsers, licenseCost)
            ELSE Mul(Mul(numUsers, licenseCost), Num(12))

C5_Witness ==
    /\ Settled /\ InputValid
    /\ pricingModel = "annual"
    /\ Gt(licenseCost, Zero)
    /\ calculations.annualLicenseCost = Mul(numUsers, licenseCost)

\* C6: for valid input firstYearAdjustedSavings is annualSavings x
\* max(0, 12 - timeToValue) / 12: 0 from timeToValue 12 on, never negative,
\* and annualSavings itself when timeToValue is 0.
C6_FirstYearAdjustedSavings ==
    (Settled /\ InputValid) =>
        LET a == calculations.annualSavings
            f == calculations.firstYearAdjustedSavings
        IN  /\ IsFinite(f) /\ ~Lt(f, Zero)
            /\ Le(Num(12), timeToValue) => f = Zero
            /\ Lt(timeToValue, Num(12)) =>
                  Mul(f, Num(12)) = Mul(a, Sub(Num(12), timeToValue))
            /\ timeToValue = Zero => f = a

C6_Witness ==
    /\ Settled /\ InputValid
    /\ Gt(timeToValue, Num(12))
    /\ Gt(calculations.annualSavings, Zero)
    /\ calculations.firstYearAdjustedSavings = Zero

\* C7: for valid input totalSavingsOver3Years is firstYearAdjustedSavings +
\* 2 x annualSavings, also when timeToValue exceeds 12 months.
C7_TotalSavingsOver3Years ==
    (Settled /\ InputValid) =>
        calculations.totalSavingsOver3Years =
            Add(calculations.firstYearAdjustedSavings,
                Add(calculations.annualSavings, calculations.annualSavings))

C7_Witness ==
    /\ Settled /\ InputValid
    /\ Gt(timeToValue, Num(12))
    /\ Gt(calculations.annualSavings, Zero)
    /\ calculations.totalSavingsOver3Years = Mul(calculations.annualSavings, Num(2))

\* C8: for valid input annualSavings is hoursSaved x hourlyRate x numUsers x
\* 52, which is not negative.
C8_AnnualSavings ==
    (Settled /\ InputValid) =>
        /\ calculations.annualSavings =
              Mul(Num(52), Mul(numUsers, Mul(hourlyRate, hoursSaved)))
        /\ ~Lt(calculations.annualSavings, Zero)

C8_Witness ==
    /\ Settled /\ InputValid
    /\ numUsers = Rat(3, 2) /\ hoursSaved = Num(2) /\ hourlyRate = Num(1)
    /\ calculations.annualSavings = Num(156)

\* the input of the end-to-end example, which is the initial input
ExampleInput ==
    /\ licenseCost = Num(50) /\ numUsers = Num(10) /\ hoursSaved = Num(5)
    /\ hourlyRate = Num(75) /\ implementationCost = Num(5000)
    /\ timeToValue = Num(3) /\ pricingModel = "monthly"

\* C9: for the example input the outputs are annualLicenseCost 6000,
\* annualSavings 195000, firstYearTotalCost 11000, annualNetValue 189000,
\* annualROI 189000/11000 x 100 (about 1718.2), monthlyNetSavings 15750,
\* paybackPeriodMonths 3 + 5000/15750 (about 3.317),
\* firstYearAdjustedSavings 146250 and totalSavingsOver3Years 536250.
C9_EndToEndExample ==
    (Settled /\ ExampleInput) =>
        /\ calculations.annualLicenseCost = Num(6000)
        /\ calculations.annualSavings = Num(195000)
        /\ calculations.firstYearTotalCost = Num(11000)
        /\ calculations.annualNetValue = Num(189000)
        /\ calculations.annualROI = Rat(189000 * 100, 11000)
        /\ Lt(Rat(17181, 10), calculations.annualROI)
        /\ Lt(calculations.annualROI, Rat(17183, 10))
        /\ calculations.monthlyNetSavings = Num(15750)
        /\ calculations.paybackPeriodMonths = Rat(3 * 15750 + 5000, 15750)
        /\ Lt(Rat(3316, 1000), calculations.paybackPeriodMonths)
        /\ Lt(calculations.paybackPeriodMonths, Rat(3318, 1000))
        /\ calculations.firstYearAdjustedSavings = Num(146250)
        /\ calculations.totalSavingsOver3Years = Num(536250)

C9_Witness ==
    /\ Settled /\ ExampleInput
    /\ errors = NoErrors
    /\ calculations.totalSavingsOver3Years = Num(536250)

\* C10: once rendering has settled, the output record is the derivation
\* applied to the current input alone, whatever the history of edits,
\* toggles, Load Example Data and Clear Inputs clicks.
C10_OutputIsFunctionOfInput ==
    Settled => calculations = Calculate(input)

C10_Witness ==
    /\ Settled
    /\ pricingModel = "annual"
    /\ licenseCost = Num(50) /\ numUsers = Num(10) /\ hoursSaved = Num(5)
    /\ hourlyRate = Num(75) /\ implementationCost = Num(5000)
    /\ timeToValue = Num(3)
    /\ calculations.annualLicenseCost = Num(500)
    /\ calculations.firstYearTotalCost = Num(5500)

\* C11: for valid input the chart has exactly three points: Year 1 with
\* Cost firstYearTotalCost, Savings firstYearAdjustedSavings and Net Value
\* their difference; Year 2 and Year 3 alike with Cost annualLicenseCost,
\* Savings annualSavings and Net Value annualNetValue.
C11_ChartProjection ==
    (Settled /\ InputValid) =>
        /\ Len(chartData) = 3
        /\ chartData[1] = Point("Year 1", calculations.firstYearTotalCost,
                                calculations.firstYearAdjustedSavings,
                                Sub(calculations.firstYearAdjustedSavings,
                                    calculations.firstYearTotalCost))
        /\ chartData[2] = Point("Year 2", calculations.annualLicenseCost,
                                calculations.annualSavings,
                                calculations.annualNetValue)
        /\ chartData[3] = [chartData[2] EXCEPT !.name = "Year 3"]
        /\ Add(chartData[2].Cost, implementationCost) = chartData[1].Cost

C11_Witness ==
    /\ Settled /\ InputValid
    /\ Gt(implementationCost, Zero)
    /\ Gt(calculations.annualLicenseCost, Zero)
    /\ Gt(timeToValue, Zero)
    /\ Lt(chartData[3].Cost, chartData[1].Cost)
    /\ Lt(chartData[1].Savings, chartData[3].Savings)

\* the Cost, Savings and Net Value of the three points
ChartValues ==
    {chartData[i].Cost : i \in 1..Len(chartData)}
    \cup {chartData[i].Savings : i \in 1..Len(chartData)}
    \cup {chartData[i].NetValue : i \in 1..Len(chartData)}

\* C12: whenever the input is invalid the chart is three points whose Cost,
\* Savings and Net Value are 0, and in every reachable state no chart value
\* is NaN or infinite.
C12_ChartNeverNonFinite ==
    /\ (Settled /\ ~InputValid) => chartData = ZeroChart
    /\ Len(chartData) = 3
    /\ \A v \in ChartValues : IsFinite(v)

C12_Witness ==
    /\ Settled /\ ~InputValid
    /\ isNaN(calculations.firstYearTotalCost)
    /\ chartData[1].NetValue = Zero
    /\ ChartValues = {Zero}

\* C13: when the input is invalid the three cards show "N/A"; when it is
\* valid none does, the ROI card shows "Infinite %" exactly when annualROI is
\* +Infinity and the payback card shows "Never" exactly when
\* paybackPeriodMonths is +Infinity.
C13_CardDisplayPolicy ==
    Settled =>
        /\ ~InputValid =>
              /\ cards.annualSavings = Text("N/A")
              /\ cards.paybackPeriodMonths = Text("N/A")
              /\ cards.annualROI = Text("N/A")
        /\ InputValid =>
              /\ cards.annualSavings.text = "$"
              /\ cards.paybackPeriodMonths.text \in {"Never", "fixed"}
              /\ cards.annualROI.text \in {"Infinite %", "fixed%"}
              /\ cards.annualROI.text = "Infinite %"
                    <=> calculations.annualROI = Infinity
              /\ cards.paybackPeriodMonths.text = "Never"
                    <=> calculations.paybackPeriodMonths = Infinity

C13_Witness ==
    /\ Settled /\ InputValid
    /\ cards.annualROI = Text("Infinite %")
    /\ cards.paybackPeriodMonths = toFixed1(timeToValue)
    /\ cards.annualSavings.text = "$"

\* C14: for valid input no division has a zero divisor, and only annualROI
\* and paybackPeriodMonths can be non-finite, each only as +Infinity (never
\* -Infinity, never NaN); every other output field is finite.
C14_OnlyIntendedInfinities ==
    (Settled /\ InputValid) =>
        LET roi == calculations.annualROI
            p   == calculations.paybackPeriodMonths
        IN  /\ \A f \in OutputFields \ {"annualROI", "paybackPeriodMonths"} :
                  IsFinite(calculations[f])
            /\ IsFinite(roi) \/ roi = Infinity
            /\ IsFinite(p) \/ p = Infinity
            \* the divisions run only with a positive divisor
            /\ roi = Infinity <=>
                  (calculations.firstYearTotalCost = Zero
                      /\ Gt(calculations.annualNetValue, Zero))
            /\ p = Infinity <=> Le(calculations.monthlyNetSavings, Zero)

C14_Witness ==
    /\ Settled /\ InputValid
    /\ calculations.firstYearTotalCost = Zero
    /\ calculations.annualNetValue = Zero
    /\ calculations.annualROI = Zero
    /\ calculations.monthlyNetSavings = Zero
    /\ calculations.paybackPeriodMonths = Infinity

\* C15: raising hoursSaved with every other input fixed (both inputs valid)
\* never lowers annualSavings.
C15_AnnualSavingsMonotone ==
    (Settled /\ InputValid) =>
        \A more \in HoursSavedRange :
            Lt(hoursSaved, more) =>
                LET raised == Calculate([input EXCEPT !.hoursSaved = more])
                IN  /\ ~isNaN(raised.annualSavings)
                    /\ ~Lt(raised.annualSavings, calculations.annualSavings)

C15_Witness ==
    /\ Settled /\ InputValid
    /\ hoursSaved = Num(1) /\ hourlyRate = Num(2) /\ numUsers = Rat(3, 2)
    /\ Num(2) \in HoursSavedRange
    /\ calculations.annualSavings = Num(156)
    /\ Calculate([input EXCEPT !.hoursSaved = Num(2)]).annualSavings = Num(312)

\* the thirteen current values in the order of the exports: six inputs, then
\* seven outputs
ExportedFields ==
    <<licenseCost, numUsers, hoursSaved, hourlyRate, implementationCost,
      timeToValue, calculations.annualSavings, calculations.annualLicenseCost,
      calculations.firstYearTotalCost, calculations.annualNetValue,
      calculations.annualROI, calculations.paybackPeriodMonths,
      calculations.totalSavingsOver3Years>>

IsJson == download.file = "saas-roi-calculation.json"
IsCsv == download.file = "saas-roi-results.csv"

\* C16: the JSON and CSV exports each contain exactly 13 metric values, six
\* inputs followed by seven outputs, each equal to the corresponding current
\* input or output field at the moment of the click; the CSV has one header
\* row followed by 13 data rows.
C16_ExportsEqualCurrentValues ==
    (IsJson \/ IsCsv) =>
        /\ Len(download.rows) = 13
        /\ \A i \in 1..13 : download.rows[i].value = ExportedFields[i]
        /\ IsCsv => download.header = <<"Metric", "Value">>

\* C16 as amended: as above, except that the JSON export writes null for a
\* field that is not a finite number (NaN, +Infinity).
C16_ExportsEqualFiniteValues ==
    (IsJson \/ IsCsv) =>
        /\ Len(download.rows) = 13
        /\ \A i \in 1..13 :
              download.rows[i].value =
                  IF IsJson /\ ~IsFinite(ExportedFields[i]) THEN null
                  ELSE ExportedFields[i]
        /\ IsCsv => download.header = <<"Metric", "Value">>

C16_Witness ==
    /\ IsJson /\ InputValid
    /\ calculations.annualROI = Infinity
    /\ download.rows[11] = Row("First Year ROI (%)", null)
    /\ download.rows[9] = Row("First Year Total Cost", Zero)
    /\ download.rows[7].value = calculations.annualSavings

\* errors and calculations both match the current input, nothing pending
Quiescent ==
    /\ Settled
    /\ DOMAIN errors = ViolatingFields
    /\ calculations = Calculate(input)

\* C17: after an input mutation the recomputation completes before the next
\* user interaction: the setErrors issued while rendering causes finitely
\* many passes (the pass after an event is followed by at most one more and
\* no event is handled in between), and the state then reached is quiescent: errors is the violation set of the current input
\* and the output matches the current input.
C17_RenderingSettles ==
    /\ [](Settled => Quiescent)
    /\ [][phase = "render" =>
            (input' = input /\ phase' \in {"rerender", "idle"})]_vars
    /\ [][phase = "rerender" => (input' = input /\ phase' = "idle")]_vars

C17_Witness ==
    /\ Quiescent
    /\ DOMAIN errors = {"licenseCost", "timeToValue"}
    /\ pendingErrors = errors
    /\ calculationsDeps # NoDeps

\* C18: every input on which the derivation runs has numUsers an integer
\* >= 1; a non-integer user count such as 1.5 is not accepted as valid.
C18_DerivationOnlyForIntegerUsers ==
    (Settled /\ ~isNaN(calculations.annualSavings)) =>
        (numUsers.d = 1 /\ numUsers.n >= 1)

\* the state Clear Inputs sets up: all six numeric inputs 0
AllInputsZero ==
    /\ licenseCost = Zero /\ numUsers = Zero /\ hoursSaved = Zero
    /\ hourlyRate = Zero /\ implementationCost = Zero /\ timeToValue = Zero

\* C19: clicking Clear Inputs leads to an invalid state: all six numeric
\* inputs are 0, the error set is exactly {numUsers}, all output fields are
\* the invalid sentinel, the three cards show N/A and the chart is three zero
\* points, under either pricing model.
C19_ClearInputsInvalidState ==
    /\ [][ClearInputs => AllInputsZero' /\ pricingModel' = pricingModel]_vars
    /\ [](Settled /\ AllInputsZero =>
            /\ DOMAIN errors = {"numUsers"}
            /\ \A f \in OutputFields : calculations[f] = NaN
            /\ cards.annualSavings = Text("N/A")
            /\ cards.paybackPeriodMonths = Text("N/A")
            /\ cards.annualROI = Text("N/A")
            /\ chartData = ZeroChart)

\* the six numeric inputs hold the values Load Example Data writes
ExampleNumbers ==
    /\ licenseCost = Num(DefaultLicenseCost)
    /\ numUsers = Num(DefaultNumUsers)
    /\ hoursSaved = Num(DefaultHoursSaved)
    /\ hourlyRate = Num(DefaultHourlyRate)
    /\ implementationCost = Num(DefaultImplementationCost)
    /\ timeToValue = Num(DefaultTimeToValue)

SixInputs ==
    <<licenseCost, numUsers, hoursSaved, hourlyRate, implementationCost,
      timeToValue>>

\* C20: pricingModel is changed only by the Monthly/Annual toggles: Load
\* Example Data, Clear Inputs and every numeric field edit leave it
\* unchanged, and a toggle leaves the six numeric inputs unchanged. So after
\* Load Example Data the annual license cost is the initial 6000 only under
\* 'monthly'; under 'annual' it is 500.
C20_PricingModelFrame ==
    /\ [][LoadExampleData =>
            ExampleNumbers' /\ pricingModel' = pricingModel]_vars
    /\ [][ClearInputs => pricingModel' = pricingModel]_vars
    /\ [][(ChangeLicenseCost \/ ChangeNumUsers \/ ChangeHoursSaved
            \/ ChangeHourlyRate \/ ChangeImplementationCost
            \/ ChangeTimeToValue) => pricingModel' = pricingModel]_vars
    /\ [][SetPricingModel => SixInputs' = SixInputs]_vars
    /\ [][pricingModel' # pricingModel => SixInputs' = SixInputs]_vars
    /\ [](Settled /\ ExampleNumbers =>
            calculations.annualLicenseCost =
                IF pricingModel = "monthly" THEN Num(6000) ELSE Num(500))

C20_Witness ==
    /\ Settled /\ ExampleNumbers
    /\ pricingModel = "annual"
    /\ errors = NoErrors
    /\ calculations.annualLicenseCost = Num(500)
    /\ calculations.annualNetValue = Num(194500)

\* C21: for every valid input with a finite paybackPeriodMonths, the payback
\* period is at least timeToValue, (paybackPeriodMonths - timeToValue) x
\* monthlyNetSavings is the implementation cost, and the payback period
\* equals timeToValue exactly when implementationCost is 0.
C21_PaybackIncludesRampUp ==
    (Settled /\ InputValid /\ IsFinite(calculations.paybackPeriodMonths)) =>
        LET p == calculations.paybackPeriodMonths
            m == calculations.monthlyNetSavings
        IN  /\ Le(timeToValue, p)
            /\ Mul(Sub(p, timeToValue), m) = implementationCost
            /\ (p = timeToValue) <=> (implementationCost = Zero)

C21_Witness ==
    /\ Settled /\ InputValid
    /\ IsFinite(calculations.paybackPeriodMonths)
    /\ Gt(timeToValue, Zero)
    /\ Gt(implementationCost, Zero)
    /\ Lt(timeToValue, calculations.paybackPeriodMonths)
    /\ calculations.paybackPeriodMonths.d # 1

\* the other case of C21: nothing to recover, payback at the end of ramp-up
C21_WitnessZeroCost ==
    /\ Settled /\ InputValid
    /\ implementationCost = Zero
    /\ Gt(timeToValue, Zero)
    /\ calculations.paybackPeriodMonths = timeToValue

\* C22: for every valid input the chart agrees with the scalar outputs: the
\* three Savings values add up to totalSavingsOver3Years, the three Cost
\* values add up to firstYearTotalCost + 2 x annualLicenseCost, and the Net
\* Value of each point is its Savings minus its Cost.
C22_ChartConsistentWithOutputs ==
    (Settled /\ InputValid) =>
        /\ Add(Add(chartData[1].Savings, chartData[2].Savings),
               chartData[3].Savings) = calculations.totalSavingsOver3Years
        /\ Add(Add(chartData[1].Cost, chartData[2].Cost), chartData[3].Cost)
              = Add(calculations.firstYearTotalCost,
                    Mul(Num(2), calculations.annualLicenseCost))
        /\ \A i \in 1..3 :
              chartData[i].NetValue = Sub(chartData[i].Savings, chartData[i].Cost)

C22_Witness ==
    /\ Settled /\ InputValid
    /\ Gt(timeToValue, Zero)
    /\ Gt(calculations.totalSavingsOver3Years, Zero)
    /\ Lt(chartData[1].NetValue, Zero)
    /\ Gt(chartData[2].NetValue, Zero)
    /\ Lt(Mul(Num(3), chartData[1].Savings), calculations.totalSavingsOver3Years)

====
